---- MODULE Spec2Model ----
(***************************************************************************)
(* BerryRAG (berrydev-ai/berry-rag): the chunker, the document store with  *)
(* its content-hash dedup, the similarity search and the context builder   *)
(* of src/src/rag_system.py (file + SQLite backend) and                    *)
(* src/src/rag_system_pgvector.py (PostgreSQL + pgvector backend).         *)
(*                                                                         *)
(* The specifications of the module:                                       *)
(*   SpecChunk    chunk_text, one loop iteration per step                  *)
(*   SpecCut      chunk_text on longer texts, windows past the first       *)
(*   Spec         add_document, concurrent callers                         *)
(*   SpecSeq      add_document, one caller, back-to-back calls             *)
(*   SpecSearch   the file-backed store filled and searched                *)
(*   SpecIngest   documents of several chunks, embeddings failing          *)
(*   SpecList     versions of documents, list_documents                    *)
(*   SpecIO       a store that may fail                                    *)
(*   SpecDamaged  metadata texts that do not parse                         *)
(*   SpecEmbed    EmbeddingProvider                                        *)
(*   SpecEngine   engines constructed over an existing store               *)
(*   SpecContext  get_context_for_query over a ranked result list          *)
(*   SpecScrape   process_scraped_files (src/src/playwright_integration.py)*)
(* A text is a sequence of one-character strings.                          *)
(***************************************************************************)
EXTENDS Integers, Sequences, FiniteSets, TLC

VARIABLES
    \* chunk_text
    text, chunk_size, overlap, start, chunks, iters, cpc,
    \* the store: committed rows, vector files, the clock, SQLite's write lock
    backend, documents, vectors, clock, nextRowid, writer, calls,
    \* each add_document caller: position, arguments, locals, open transaction,
    \* the chunk indexes logged as `Failed to generate embedding for chunk {i}`
    pc, args, doc_id, timestamp, todo, idx, txn, ret, logged,
    \* observations: the last search call, two back-to-back add_document calls,
    \* the last list_documents call, the query_interface.json file
    searchOut, hist, listOut, interface,
    \* get_context_for_query
    query_len, max_chars, results, context_parts, total_chars, rank, xpc,
    \* an EmbeddingProvider instance and the vectors it has returned
    requested, st_available, openai_available, provider, embedding_dim, encoded, epc,
    \* system_config's embedding_dimension (pgvector), the engines constructed so far
    stored_dim, instances,
    \* PlaywrightRAGIntegration: the .md files of the scraped directory, the
    \* instance's processed set, .processed_files.json, the files a run has
    \* left to do, its counters, how it counted each file, the number of new
    \* files it started with, the files ever counted processed or skipped,
    \* those passed to add_document after that, the runs so far
    scraped_dir, processed_files, persisted, new_files, stats, outcome, started,
    counted, repeated, runs, spc

chunkVars == <<text, chunk_size, overlap, start, chunks, iters, cpc>>
storeVars == <<backend, documents, vectors, clock, nextRowid, writer, calls>>
procVars == <<pc, args, doc_id, timestamp, todo, idx, txn, ret, logged>>
obsVars == <<searchOut, hist, listOut, interface>>
ctxVars == <<query_len, max_chars, results, context_parts, total_chars, rank, xpc>>
engineVars == <<requested, st_available, openai_available, provider, embedding_dim,
                encoded, epc, stored_dim, instances>>
scrapeVars == <<scraped_dir, processed_files, persisted, new_files, stats, outcome,
                started, counted, repeated, runs, spc>>

Min(a, b) == IF a < b THEN a ELSE b
Max(a, b) == IF a > b THEN a ELSE b

(***************************************************************************)
(* Python string primitives used by chunk_text.                            *)
(***************************************************************************)
\* A slice index of s[a:b]: negative counts from the end, then clamped.
PyIndex(i, n) == IF i < 0 THEN Max(0, i + n) ELSE Min(i, n)

\* s[a:b]
PySlice(s, a, b) ==
    LET lo == PyIndex(a, Len(s))
        hi == PyIndex(b, Len(s))
    IN  IF hi <= lo THEN <<>> ELSE SubSeq(s, lo + 1, hi)

\* s[a:]
PySliceFrom(s, a) == PySlice(s, a, Len(s))

\* str.strip() removes whitespace at both ends.
IsSpace(c) == c \in {" ", "\n"}

PyStrip(s) ==
    LET keep == {i \in 1..Len(s) : ~IsSpace(s[i])}
    IN  IF keep = {} THEN <<>>
        ELSE LET lo == CHOOSE i \in keep : \A j \in keep : i <= j
                 hi == CHOOSE i \in keep : \A j \in keep : i >= j
             IN  SubSeq(s, lo, hi)

\* s.rfind(sub): the highest 0-based index where sub occurs in s, or -1.
PyRFind(s, sub) ==
    LET hits == {i \in 0..(Len(s) - Len(sub)) : SubSeq(s, i + 1, i + Len(sub)) = sub}
    IN  IF hits = {} THEN -1 ELSE CHOOSE i \in hits : \A j \in hits : i >= j

SetMax(S) == CHOOSE x \in S : \A y \in S : x >= y

(***************************************************************************)
(* chunk_text: the cut of one window (the `end` the loop body settles on   *)
(* when the window does not reach the end of the text).                    *)
(***************************************************************************)
SentenceBreak(window, st, cs) ==
    LET sentence_breaks == {PyRFind(window, <<".", " ">>), PyRFind(window, <<".", "\n">>),
                            PyRFind(window, <<"?", " ">>), PyRFind(window, <<"!", " ">>)}
        ok == {b \in sentence_breaks : b > st + (cs \div 2)}
    IN  IF ok = {} THEN -1 ELSE SetMax(ok)

\* Mutant: the character limit taken one past the window.
CutEndPastWindow(t, st, cs) ==
    LET window == PySlice(t, st, st + cs)
        sentence_break == SentenceBreak(window, st, cs)
        para_break == PyRFind(window, <<"\n", "\n">>)
        line_break == PyRFind(window, <<"\n">>)
    IN  IF sentence_break > 0 THEN st + sentence_break + 1
        ELSE IF para_break > st + (cs \div 3) THEN st + para_break + 2
        ELSE IF line_break > st + (cs \div 2) THEN st + line_break + 1
        ELSE st + cs + 1

CutEnd(t, st, cs) ==
    LET window == PySlice(t, st, st + cs)
        sentence_break == SentenceBreak(window, st, cs)
        para_break == PyRFind(window, <<"\n", "\n">>)
        line_break == PyRFind(window, <<"\n">>)
    IN  IF sentence_break > 0 THEN st + sentence_break + 1
        ELSE IF para_break > st + (cs \div 3) THEN st + para_break + 2
        ELSE IF line_break > st + (cs \div 2) THEN st + line_break + 1
        ELSE st + cs

\* Mutant: the `if chunk:` guard dropped.
AppendAlways(cks, chunk) == Append(cks, chunk)

\* chunks.append(chunk) guarded by `if chunk:`
AppendIfAny(cks, chunk) == IF chunk = <<>> THEN cks ELSE Append(cks, chunk)

\* Mutant: the next window starts at the cut, without the overlap.
NextStartNoOverlap(end, ov) == end

\* The next window start after a cut at `end`.
NextStart(end, ov) == end - ov

\* One iteration of the while loop: the new start, the new chunks, and
\* whether the loop is left (break, or the while condition turning false).
LoopBody(t, cs, ov, st, cks) ==
    LET end == st + cs
    IN  IF end >= Len(t)
        THEN [start |-> st, chunks |-> AppendIfAny(cks, PyStrip(PySliceFrom(t, st))),
              exit |-> TRUE]
        ELSE LET cut == CutEnd(t, st, cs)
                 ns == NextStart(cut, ov)
             IN  [start |-> ns,
                  chunks |-> AppendIfAny(cks, PyStrip(PySlice(t, st, cut))),
                  exit |-> ns >= Len(t)]

\* Mutant: `<` for `<=`.
IsShortStrict(t, cs) == Len(t) < cs

\* The early return of short texts.
IsShort(t, cs) == Len(t) <= cs

(***************************************************************************)
(* Bounds of the chunker specification.                                    *)
(***************************************************************************)
MaxTextLen == 6
\* Loop iterations followed before the run is cut off (a loop that makes no
\* progress never ends in the code).
MaxIters == 8
Chars == {"a", " ", ".", "\n"}
\* (chunk_size, overlap) pairs: overlap below, equal to and above chunk_size,
\* and an overlap above half of chunk_size.
ChunkParams == {<<2, 0>>, <<2, 1>>, <<3, 0>>, <<3, 1>>, <<3, 2>>, <<4, 1>>,
                <<5, 1>>, <<5, 2>>, <<5, 4>>, <<2, 2>>, <<3, 4>>}

RECURSIVE TextsOfLen(_)
TextsOfLen(n) ==
    IF n = 0 THEN {<<>>}
    ELSE {Append(s, c) : s \in TextsOfLen(n - 1), c \in Chars}

Texts == UNION {TextsOfLen(n) : n \in 0..MaxTextLen}

InitChunk ==
    /\ text \in Texts
    /\ \E p \in ChunkParams : chunk_size = p[1] /\ overlap = p[2]
    /\ start = 0
    /\ chunks = <<>>
    /\ iters = 0
    /\ cpc = "entry"

\* Texts one character longer than MaxTextLen, and parameters with which a
\* window that starts past 0 ends before the text does.
CutParams == {<<5, 4>>, <<5, 3>>, <<4, 3>>}

InitCutText ==
    /\ text \in TextsOfLen(MaxTextLen + 1)
    /\ \E p \in CutParams : chunk_size = p[1] /\ overlap = p[2]
    /\ start = 0
    /\ chunks = <<>>
    /\ iters = 0
    /\ cpc = "entry"

\* def chunk_text: `if len(text) <= chunk_size: return [text]`
ChunkEntry ==
    /\ cpc = "entry"
    /\ IF IsShort(text, chunk_size)
       THEN chunks' = <<text>> /\ cpc' = "done"
       ELSE chunks' = <<>> /\ cpc' = "loop"
    /\ start' = 0
    /\ UNCHANGED <<text, chunk_size, overlap, iters>>
    /\ UNCHANGED <<storeVars, procVars, obsVars, ctxVars, engineVars, scrapeVars>>

\* One iteration of `while start < len(text)`.
ChunkLoop ==
    /\ cpc = "loop"
    /\ start < Len(text)
    /\ iters < MaxIters
    /\ iters' = iters + 1
    /\ LET r == LoopBody(text, chunk_size, overlap, start, chunks)
       IN  /\ start' = r.start
           /\ chunks' = r.chunks
           /\ cpc' = IF r.exit THEN "done" ELSE "loop"
    /\ UNCHANGED <<text, chunk_size, overlap>>
    /\ UNCHANGED <<storeVars, procVars, obsVars, ctxVars, engineVars, scrapeVars>>

NextChunk == ChunkEntry \/ ChunkLoop

(***************************************************************************)
(* chunk_text as a function, as add_document calls it.                     *)
(***************************************************************************)
RECURSIVE ChunkRun(_, _, _, _, _, _)
ChunkRun(t, cs, ov, st, cks, fuel) ==
    IF fuel = 0 \/ ~(st < Len(t)) THEN cks
    ELSE LET r == LoopBody(t, cs, ov, st, cks)
         IN  IF r.exit THEN r.chunks
             ELSE ChunkRun(t, cs, ov, r.start, r.chunks, fuel - 1)

chunk_text(t, cs, ov) ==
    IF IsShort(t, cs) THEN <<t>> ELSE ChunkRun(t, cs, ov, 0, <<>>, MaxIters)

(***************************************************************************)
(* The store and add_document.                                             *)
(***************************************************************************)
Procs == {1, 2}
Urls == {"u1", "u2"}
Titles == {"t1", "t2"}
\* One chunk, two chunks, and a whitespace-only text longer than the chunk
\* size (no chunk at all).
Contents == {<<"a", "b">>, <<"a", "b", "c", "d", "e", "f">>, <<" ", " ", " ", " ", " ">>}
\* chunk_text(content) runs with its defaults chunk_size=500, overlap=50,
\* scaled here to the length of the model's texts.
DefaultChunking == <<4, 1>>
MaxClock == 2
MaxCalls == 2

\* Embeddings: integer vectors whose norms are integers (0, 1, 5), so that
\* the cosine similarity in hundredths is exact; one vector of another
\* dimension (a provider that fell back to the hash embedding).
Vectors == {<<0, 0>>, <<1, 0>>, <<3, 4>>, <<1, 0, 0>>}
\* The callers, urls, titles, contents and embeddings each specification draws from.
DedupScope == [urls |-> Urls, titles |-> {"t1"},
               contents |-> {<<"a", "b", "c", "d", "e", "f">>, <<" ", " ", " ", " ", " ">>},
               vecs |-> {<<1, 0>>}]
SeqScope == [urls |-> Urls, titles |-> Titles, contents |-> Contents, vecs |-> {<<1, 0>>}]
SearchScope == [urls |-> {"u1"}, titles |-> {"t1"},
                contents |-> {<<"a", "b">>, <<"a", "b", "c", "d", "e", "f">>},
                vecs |-> Vectors]
\* One url; a text of two chunks and one of three.
IngestScope == [urls |-> {"u1"}, titles |-> {"t1"},
                contents |-> {<<"a", "b", "c", "d", "e", "f">>,
                              <<"a", "b", "c", "d", "e", "f", "g", "h", "i">>},
                vecs |-> {<<1, 0>>}]
\* Two titles under one url, two versions of the content.
ListScope == [urls |-> {"u1"}, titles |-> Titles,
              contents |-> {<<"a", "b">>, <<"a", "b", "c", "d", "e", "f">>},
              vecs |-> {<<1, 0>>}]
\* encode(text): a vector, or an exception
EncodeOutcomes(S) ==
    {[raised |-> FALSE, vec |-> v] : v \in S} \cup {[raised |-> TRUE, vec |-> <<>>]}
\* The file backend keeps the vector outside the row.
NoEmbedding == <<>>
\* What a caller holds after add_document raised.
Raised == <<"raised", 0>>

\* hashlib.md5(content.encode()).hexdigest(): a digest that identifies the content.
content_hash(c) == <<"md5", c>>
\* hashlib.md5(f"{url}{now}".encode()).hexdigest()[:12]
DocId(u, now) == <<u, now>>
\* f"{doc_id}_{i}" and existing.split('_')[0]
ChunkId(d, i) == <<d, i>>
BaseDocId(id) == id[1]

Row(p, i, rowid, emb) ==
    [id |-> ChunkId(doc_id[p], i), url |-> args[p].url, title |-> args[p].title,
     content |-> todo[p][i + 1], chunk_id |-> i, timestamp |-> timestamp[p],
     content_hash |-> content_hash(args[p].content),
     total_chunks |-> Len(todo[p]), original_length |-> Len(args[p].content),
     metadata_ok |-> TRUE, rowid |-> rowid, embedding |-> emb]

Ids(rows) == {r.id : r \in rows}

\* The metadata column: json.dumps({**metadata, 'total_chunks': ...,
\* 'content_hash': ..., 'original_length': ...}) for a caller that passes no
\* metadata of its own.  As a text it is ordered by its three values in this
\* order (the model's counts and lengths have one digit); a text that does
\* not parse (metadata_ok false) is one cut off after the first value.
\* Md5Order lists the model's contents by their md5 hex digests: 1545...,
\* 187e..., 8aa9..., e80b...
Md5Order == << <<" ", " ", " ", " ", " ">>, <<"a", "b">>,
               <<"a", "b", "c", "d", "e", "f", "g", "h", "i">>,
               <<"a", "b", "c", "d", "e", "f">> >>

HashRank(h) == CHOOSE i \in 1..Len(Md5Order) : Md5Order[i] = h[2]

MetadataText(r) ==
    IF r.metadata_ok THEN <<r.total_chunks, HashRank(r.content_hash), r.original_length>>
    ELSE <<r.total_chunks>>

\* a <= b for two texts (sequences compared element by element, a prefix first)
RECURSIVE TextLeq(_, _)
TextLeq(a, b) ==
    IF a = <<>> THEN TRUE
    ELSE IF b = <<>> THEN FALSE
    ELSE IF Head(a) # Head(b) THEN Head(a) < Head(b)
    ELSE TextLeq(Tail(a), Tail(b))

\* INSERT OR REPLACE / ON CONFLICT (id) DO UPDATE
Upsert(rows, new) == {r \in rows : r.id \notin Ids(new)} \cup new

\* SELECT id FROM documents WHERE url = ? AND content_hash = ? LIMIT 1
\* SQLite walks idx_content_hash (lowest rowid first); PostgreSQL may return
\* any matching row.
Matching(u, h) == {r \in documents : r.url = u /\ r.content_hash = h}

\* Mutant: the existence check finds no row.
ExistingRowsNone(u, h) == {}

ExistingRows(u, h) ==
    LET m == Matching(u, h)
    IN  IF backend = "file"
        THEN {r \in m : \A x \in m : r.rowid <= x.rowid}
        ELSE m

\* get_stats()["chunk_count"]: SELECT COUNT(*) FROM documents
chunk_count(rows) == Cardinality(rows)

OthersIdle(p) == \A q \in Procs \ {p} : pc[q] = "idle"

(***************************************************************************)
(* hist follows two add_document calls that run one right after the other  *)
(* with the same url and content, no other caller in flight.               *)
(***************************************************************************)
\* hist.stage: "off" (not followed), "none", "first" (a call has returned),
\* "running" (the next call, same url and content, is in flight), "second"
\* (it has returned).
HistOff == [stage |-> "off", url |-> "", content |-> <<>>, follower |-> 0,
            ret1 |-> <<>>, count1 |-> 0, ret2 |-> <<>>, count2 |-> 0]

NoHist == [stage |-> "none", url |-> "", content |-> <<>>, follower |-> 0,
           ret1 |-> <<>>, count1 |-> 0, ret2 |-> <<>>, count2 |-> 0]

Track(h) == IF hist.stage = "off" THEN hist ELSE h

HistFirst(p, u, c, d, n) ==
    IF OthersIdle(p)
    THEN [stage |-> "first", url |-> u, content |-> c, follower |-> 0,
          ret1 |-> d, count1 |-> n, ret2 |-> <<>>, count2 |-> 0]
    ELSE NoHist

Follows(p, u, c) ==
    hist.stage = "first" /\ hist.url = u /\ hist.content = c /\ OthersIdle(p)

HistOnStep(p) == IF hist.stage = "running" /\ hist.follower = p THEN hist ELSE NoHist

HistOnReturn(p, u, c, d, n) ==
    IF hist.stage = "running" /\ hist.follower = p
    THEN [hist EXCEPT !.stage = "second", !.ret2 = d, !.count2 = n]
    ELSE HistFirst(p, u, c, d, n)

NoList == [called |-> FALSE, entries |-> <<>>]

\* searchOut.storage: whether the store answered the call; searchOut.raised:
\* whether the call ended in an exception.
NoSearch == [called |-> FALSE, query |-> [raised |-> TRUE, vec |-> <<>>], top_k |-> 0, threshold |-> 0,
             results |-> <<>>, storage |-> "ok", raised |-> FALSE]

\* No query_interface.json before the first add_document that stores.
NoInterface ==
    [writes |-> 0, stats |-> [document_count |-> 0, chunk_count |-> 0],
     recent_documents |-> 0]

Init ==
    /\ backend \in {"file", "pg"}
    /\ documents = {}
    /\ vectors = <<>>
    /\ clock = 0
    /\ nextRowid = 1
    /\ writer = 0
    /\ calls = 0
    /\ pc = [p \in Procs |-> "idle"]
    /\ args = [p \in Procs |-> [url |-> "", title |-> "", content |-> <<>>]]
    /\ doc_id = [p \in Procs |-> <<>>]
    /\ timestamp = [p \in Procs |-> 0]
    /\ todo = [p \in Procs |-> <<>>]
    /\ idx = [p \in Procs |-> 0]
    /\ txn = [p \in Procs |-> {}]
    /\ ret = [p \in Procs |-> <<>>]
    /\ logged = [p \in Procs |-> {}]
    /\ searchOut = NoSearch
    /\ listOut = NoList
    /\ interface = NoInterface

\* self.list_documents()[:10]
RecentLimit == 10

\* get_stats(): COUNT(DISTINCT url) and COUNT(*) of the committed rows.
get_stats(rows) ==
    [document_count |-> Cardinality({r.url : r \in rows}),
     chunk_count |-> chunk_count(rows)]

\* _update_query_interface(): the file is rewritten with the statistics and
\* the (at most ten) listed documents of the rows committed by then; writes
\* counts the times the file has been written.
update_query_interface(old, rows) ==
    [writes |-> old.writes + 1,
     stats |-> get_stats(rows),
     recent_documents |-> Min(Cardinality({<<r.url, r.title>> : r \in rows}), RecentLimit)]

\* The locals of a call that has ended.
Forget(p) ==
    /\ doc_id' = [doc_id EXCEPT ![p] = <<>>]
    /\ timestamp' = [timestamp EXCEPT ![p] = 0]
    /\ todo' = [todo EXCEPT ![p] = <<>>]
    /\ idx' = [idx EXCEPT ![p] = 0]

\* add_document, up to the existence check: a hit returns the stored doc id.
AddCheck(p, sc) ==
    /\ pc[p] = "idle"
    /\ calls < MaxCalls
    /\ calls' = calls + 1
    /\ \E u \in sc.urls, t \in sc.titles, c \in sc.contents :
          /\ args' = [args EXCEPT ![p] = [url |-> u, title |-> t, content |-> c]]
          /\ LET existing == ExistingRows(u, content_hash(c))
             IN  IF existing # {}
                 THEN \E r \in existing :
                        /\ ret' = [ret EXCEPT ![p] = BaseDocId(r.id)]
                        /\ pc' = pc
                        /\ hist' = Track(IF Follows(p, u, c)
                                         THEN [hist EXCEPT !.stage = "second",
                                                           !.ret2 = BaseDocId(r.id),
                                                           !.count2 = chunk_count(documents)]
                                         ELSE HistFirst(p, u, c, BaseDocId(r.id),
                                                        chunk_count(documents)))
                 ELSE /\ pc' = [pc EXCEPT ![p] = "begin"]
                      /\ ret' = [ret EXCEPT ![p] = <<>>]
                      /\ hist' = Track(IF Follows(p, u, c)
                                       THEN [hist EXCEPT !.stage = "running", !.follower = p]
                                       ELSE NoHist)
    /\ searchOut' = NoSearch
    /\ listOut' = NoList
    /\ UNCHANGED interface
    /\ logged' = [logged EXCEPT ![p] = {}]
    /\ UNCHANGED <<backend, documents, vectors, clock, nextRowid, writer>>
    /\ UNCHANGED <<doc_id, timestamp, todo, idx, txn>>
    /\ UNCHANGED <<chunkVars, ctxVars, engineVars, scrapeVars>>

\* A reading of datetime.now(): the last value read by anyone, or a later one.
Readings(last) == {last, Min(last + 1, MaxClock)}

\* doc_id and timestamp (two readings of the clock), then chunk_text(content).
AddBegin(p) ==
    /\ pc[p] = "begin"
    /\ \E now \in Readings(clock) : \E ts \in Readings(now) :
          /\ doc_id' = [doc_id EXCEPT ![p] = DocId(args[p].url, now)]
          /\ timestamp' = [timestamp EXCEPT ![p] = ts]
          /\ clock' = ts
    /\ todo' = [todo EXCEPT ![p] =
                  chunk_text(args[p].content, DefaultChunking[1], DefaultChunking[2])]
    /\ idx' = [idx EXCEPT ![p] = 0]
    /\ pc' = [pc EXCEPT ![p] = "loop"]
    /\ hist' = Track(HistOnStep(p))
    /\ searchOut' = NoSearch
    /\ listOut' = NoList
    /\ UNCHANGED interface
    /\ UNCHANGED <<backend, documents, vectors, nextRowid, writer, calls>>
    /\ UNCHANGED <<args, txn, ret, logged>>
    /\ UNCHANGED <<chunkVars, ctxVars, engineVars, scrapeVars>>

\* Mutant: a failed embedding ends the loop.
AfterEncodeBreak(raised, i, n) == IF raised THEN n ELSE i + 1

\* The index the loop goes on with after encode: `except ...: continue`
\* moves to the next chunk like a pass that succeeded.
AfterEncode(raised, i, n) == i + 1

\* One pass of `for i, chunk in enumerate(chunks)`, file backend: the row is
\* inserted in the open transaction, then the vector file is saved unless
\* encode raises.
AddChunkFile(p, sc) ==
    /\ backend = "file"
    /\ pc[p] = "loop"
    /\ idx[p] < Len(todo[p])
    /\ writer \in {0, p}
    /\ writer' = p
    /\ txn' = [txn EXCEPT ![p] = Upsert(@, {Row(p, idx[p], nextRowid, NoEmbedding)})]
    /\ nextRowid' = nextRowid + 1
    /\ \E e \in EncodeOutcomes(sc.vecs) :
          /\ vectors' = IF e.raised THEN vectors
                        ELSE (ChunkId(doc_id[p], idx[p]) :> e.vec) @@ vectors
          /\ logged' = [logged EXCEPT ![p] = IF e.raised THEN @ \cup {idx[p]} ELSE @]
          /\ idx' = [idx EXCEPT ![p] = AfterEncode(e.raised, @, Len(todo[p]))]
    /\ hist' = Track(HistOnStep(p))
    /\ searchOut' = NoSearch
    /\ listOut' = NoList
    /\ UNCHANGED interface
    /\ UNCHANGED <<backend, documents, clock, calls>>
    /\ UNCHANGED <<pc, args, doc_id, timestamp, todo, ret>>
    /\ UNCHANGED <<chunkVars, ctxVars, engineVars, scrapeVars>>

\* The same pass in the pgvector backend: encode first, `continue` when it
\* raises, else the row with its embedding goes into the open transaction.
\* A row another open transaction has written under the same id blocks.
AddChunkPg(p, sc) ==
    /\ backend = "pg"
    /\ pc[p] = "loop"
    /\ idx[p] < Len(todo[p])
    /\ \E e \in EncodeOutcomes(sc.vecs) :
          /\ IF e.raised
             THEN UNCHANGED <<txn, nextRowid>>
             ELSE /\ \A q \in Procs \ {p} : ChunkId(doc_id[p], idx[p]) \notin Ids(txn[q])
                  /\ txn' = [txn EXCEPT ![p] = Upsert(@, {Row(p, idx[p], nextRowid, e.vec)})]
                  /\ nextRowid' = nextRowid + 1
          /\ logged' = [logged EXCEPT ![p] = IF e.raised THEN @ \cup {idx[p]} ELSE @]
          /\ idx' = [idx EXCEPT ![p] = AfterEncode(e.raised, @, Len(todo[p]))]
    /\ hist' = Track(HistOnStep(p))
    /\ searchOut' = NoSearch
    /\ listOut' = NoList
    /\ UNCHANGED interface
    /\ UNCHANGED <<backend, documents, vectors, clock, writer, calls>>
    /\ UNCHANGED <<pc, args, doc_id, timestamp, todo, ret>>
    /\ UNCHANGED <<chunkVars, ctxVars, engineVars, scrapeVars>>

\* File backend: another connection holds SQLite's write lock past the busy
\* timeout; the INSERT raises and add_document fails.
AddLocked(p) ==
    /\ backend = "file"
    /\ pc[p] = "loop"
    /\ idx[p] < Len(todo[p])
    /\ writer \notin {0, p}
    /\ pc' = [pc EXCEPT ![p] = "idle"]
    /\ ret' = [ret EXCEPT ![p] = Raised]
    /\ txn' = [txn EXCEPT ![p] = {}]
    /\ Forget(p)
    /\ hist' = Track(NoHist)
    /\ searchOut' = NoSearch
    /\ listOut' = NoList
    /\ UNCHANGED interface
    /\ UNCHANGED storeVars
    /\ UNCHANGED <<args, logged>>
    /\ UNCHANGED <<chunkVars, ctxVars, engineVars, scrapeVars>>

\* The end of the `with` block commits the transaction; add_document
\* returns doc_id.
AddCommit(p) ==
    /\ pc[p] = "loop"
    /\ idx[p] = Len(todo[p])
    /\ documents' = Upsert(documents, txn[p])
    /\ txn' = [txn EXCEPT ![p] = {}]
    /\ writer' = IF writer = p THEN 0 ELSE writer
    /\ pc' = [pc EXCEPT ![p] = "idle"]
    /\ ret' = [ret EXCEPT ![p] = doc_id[p]]
    /\ hist' = Track(HistOnReturn(p, args[p].url, args[p].content, doc_id[p],
                                  chunk_count(documents')))
    /\ searchOut' = NoSearch
    /\ listOut' = NoList
    /\ interface' = update_query_interface(interface, documents')
    /\ Forget(p)
    /\ UNCHANGED <<backend, vectors, clock, nextRowid, calls>>
    /\ UNCHANGED <<args, logged>>
    /\ UNCHANGED <<chunkVars, ctxVars, engineVars, scrapeVars>>

(***************************************************************************)
(* search, file backend.                                                   *)
(***************************************************************************)
Queries == {<<1, 0>>, <<0, 0>>}
\* similarity_threshold in hundredths; 10 is the default 0.1
Thresholds == {0, 10, 70}
MaxTopK == 2

RECURSIVE Dot(_, _)
Dot(a, b) == IF a = <<>> THEN 0 ELSE a[1] * b[1] + Dot(Tail(a), Tail(b))

\* np.linalg.norm on the model's vectors (their norms are integers)
Norm(v) == CHOOSE n \in 0..Dot(v, v) : n * n = Dot(v, v)

\* The cosine similarity in hundredths; `if norms == 0: similarity = 0.0`
Similarity(q, v) ==
    LET norms == Norm(q) * Norm(v)
    IN  IF norms = 0 THEN 0 ELSE (100 * Dot(q, v)) \div norms

\* Mutant: the threshold ignored.
QualifiesAny(sim, th) == sim >= 0

\* `if similarity >= similarity_threshold`
Qualifies(sim, th) == sim >= th

\* Mutant: ORDER BY timestamp ASC.
ScansOldestFirst(r, x) ==
    \/ r.timestamp < x.timestamp
    \/ r.timestamp = x.timestamp /\ r.rowid >= x.rowid

\* SELECT * FROM documents ORDER BY timestamp DESC: SQLite walks
\* idx_timestamp backwards, so equal timestamps come latest rowid first.
ScansBefore(r, x) ==
    \/ r.timestamp > x.timestamp
    \/ r.timestamp = x.timestamp /\ r.rowid >= x.rowid

RECURSIVE ScanSeq(_)
ScanSeq(rows) ==
    IF rows = {} THEN <<>>
    ELSE LET first == CHOOSE r \in rows : \A x \in rows : ScansBefore(r, x)
         IN  <<first>> \o ScanSeq(rows \ {first})

\* The loop over the cursor: rows without a vector file are skipped, a
\* vector of another dimension makes np.dot raise (caught, row skipped), and
\* so does json.loads on the metadata text of a qualifying row.
RECURSIVE Collect(_, _, _)
Collect(scan, q, th) ==
    IF scan = <<>> THEN <<>>
    ELSE LET row == Head(scan)
             rest == Collect(Tail(scan), q, th)
         IN  IF row.id \notin DOMAIN vectors THEN rest
             ELSE IF Len(vectors[row.id]) # Len(q) THEN rest
             ELSE IF Qualifies(Similarity(q, vectors[row.id]), th) /\ row.metadata_ok
                  THEN <<[document |-> row,
                          similarity |-> Similarity(q, vectors[row.id])]>> \o rest
                  ELSE rest

\* results.sort(key=lambda x: x.similarity, reverse=True): a stable sort
RECURSIVE InsertSorted(_, _)
InsertSorted(sorted, x) ==
    IF sorted = <<>> THEN <<x>>
    ELSE IF Head(sorted).similarity >= x.similarity
         THEN <<Head(sorted)>> \o InsertSorted(Tail(sorted), x)
         ELSE <<x>> \o sorted

RECURSIVE SortBySimilarity(_)
SortBySimilarity(s) ==
    IF s = <<>> THEN <<>>
    ELSE InsertSorted(SortBySimilarity(SubSeq(s, 1, Len(s) - 1)), s[Len(s)])

\* Mutant: results[:top_k-1]
TopKOffByOne(s, k) == PySlice(s, 0, k - 1)

\* results[:top_k]
TopK(s, k) == PySlice(s, 0, k)

\* q is the outcome of encode(query); `except: return []`
search(q, k, th) ==
    IF q.raised THEN <<>>
    ELSE TopK(SortBySimilarity(Collect(ScanSeq(documents), q.vec, th)), k)

\* search only reads: a search right after a search would see the same
\* store, so one search is followed per store state.  Search is the call the
\* store answers; SearchFails is the call it does not.
Search ==
    /\ backend = "file"
    /\ ~searchOut.called
    /\ \E q \in EncodeOutcomes(Queries), k \in 1..MaxTopK, th \in Thresholds :
          searchOut' = [called |-> TRUE, query |-> q, top_k |-> k, threshold |-> th,
                        results |-> search(q, k, th), storage |-> "ok", raised |-> FALSE]
    /\ UNCHANGED <<storeVars, procVars, hist, listOut, interface, chunkVars, ctxVars, engineVars, scrapeVars>>

(***************************************************************************)
(* list_documents.                                                         *)
(***************************************************************************)
\* GROUP BY url, title
Groups(rows) == {<<r.url, r.title>> : r \in rows}
GroupRows(rows, g) == {r \in rows : r.url = g[1] /\ r.title = g[2]}

\* MAX(timestamp) as latest_timestamp
LatestTimestamp(rows) == SetMax({r.timestamp : r \in rows})

\* The rows whose metadata the summary of a group may carry.  SQLite:
\* MAX(metadata), the greatest metadata text of the group.  PostgreSQL:
\* (array_agg(metadata ORDER BY timestamp DESC))[1], a row of the latest
\* timestamp.
MetadataRows(rows) ==
    IF backend = "file"
    THEN {r \in rows : \A x \in rows : TextLeq(MetadataText(x), MetadataText(r))}
    ELSE {r \in rows : r.timestamp = LatestTimestamp(rows)}

\* json.loads guarded by a bare except, then metadata.get('original_length', 0)
ContentLength(r) == IF r.metadata_ok THEN r.original_length ELSE 0

\* One entry of the list; r is the row whose metadata was selected.
Summary(rows, g, r) ==
    [url |-> g[1], title |-> g[2], timestamp |-> LatestTimestamp(GroupRows(rows, g)),
     chunk_count |-> Cardinality(GroupRows(rows, g)), content_length |-> ContentLength(r)]

\* Mutant: ORDER BY latest_timestamp ASC.
ListedOldestFirst(a, b) == a.timestamp <= b.timestamp

\* ORDER BY latest_timestamp DESC; entries of one timestamp come in any order.
ListedBefore(a, b) == a.timestamp >= b.timestamp

\* The entries a group can have, one per row its metadata may come from.
Summaries(rows, g) == {Summary(rows, g, r) : r \in MetadataRows(GroupRows(rows, g))}

\* Every list list_documents can return for the rows: one entry per group,
\* in the order of ORDER BY.
list_documents(rows) ==
    LET gs == Groups(rows)
        n == Cardinality(gs)
    IN  {es \in [1..n -> UNION {Summaries(rows, g) : g \in gs}] :
            /\ \A g \in gs : \E i \in 1..n : es[i].url = g[1] /\ es[i].title = g[2]
            /\ \A i \in 1..n : \A j \in 1..n : i < j => ListedBefore(es[i], es[j])}

\* list_documents reads committed rows only; it is followed between calls
\* of add_document, once per store state.
ListDocuments ==
    /\ ~listOut.called
    /\ \A p \in Procs : pc[p] = "idle"
    /\ \E es \in list_documents(documents) : listOut' = [called |-> TRUE, entries |-> es]
    /\ UNCHANGED <<storeVars, procVars, searchOut, hist, interface, chunkVars, ctxVars, engineVars, scrapeVars>>

Next ==
    \/ \E p \in Procs : AddCheck(p, DedupScope)
    \/ \E p \in Procs : AddBegin(p)
    \/ \E p \in Procs : AddChunkFile(p, DedupScope)
    \/ \E p \in Procs : AddChunkPg(p, DedupScope)
    \/ \E p \in Procs : AddLocked(p)
    \/ \E p \in Procs : AddCommit(p)

\* One caller filling the file-backed store, and searches of it.
NextSearch ==
    \/ AddCheck(1, SearchScope)
    \/ AddBegin(1)
    \/ AddChunkFile(1, SearchScope)
    \/ AddCommit(1)
    \/ Search

\* One caller making its calls one after the other, in either backend.
NextSeq ==
    \/ AddCheck(1, SeqScope)
    \/ AddBegin(1)
    \/ AddChunkFile(1, SeqScope)
    \/ AddChunkPg(1, SeqScope)
    \/ AddCommit(1)

\* One caller ingesting documents of several chunks, in either backend, some
\* embeddings failing; the file-backed store is searched.
NextIngest ==
    \/ AddCheck(1, IngestScope)
    \/ AddBegin(1)
    \/ AddChunkFile(1, IngestScope)
    \/ AddChunkPg(1, IngestScope)
    \/ AddCommit(1)
    \/ Search

\* One caller ingesting versions of documents, in either backend, and
\* listings of the store.
NextList ==
    \/ AddCheck(1, ListScope)
    \/ AddBegin(1)
    \/ AddChunkFile(1, ListScope)
    \/ AddChunkPg(1, ListScope)
    \/ AddCommit(1)
    \/ ListDocuments

(***************************************************************************)
(* get_context_for_query.  Only the lengths of the strings matter to the   *)
(* budget, so a string is modelled by its length and the output by the     *)
(* list of its parts.                                                      *)
(***************************************************************************)
\* len(f"🔍 Context for query: '{query}'\n") - len(query)
HeaderFixedLen == 24
\* len(f"No relevant context found for query: {query}") - len(query)
NoContextFixedLen == 37
\* len(context_part) without the rank, title, url, similarity and chunk text
BlockFixedLen == 53
\* f"{similarity:.3f}" of a similarity in [0.1, 1]
SimilarityDigits == 5
\* len("\n[Content truncated...]\n---\n")
MarkerLen == 28
\* `if remaining_chars > 200`
MinRemaining == 200
\* context_part[:remaining_chars-50]
TruncReserve == 50
\* self.search(query, top_k=10)
ContextTopK == 10

MaxResults == 3
QueryLens == {0, 5, 40}
MaxCharsChoices == {0, 30, 100, 250, 300, 400, 4000}
TitleLens == {5}
UrlLens == {10}
ChunkLens == {1, 150, 300, 500}

ResultShapes == [title_len : TitleLens, url_len : UrlLens, chunk_len : ChunkLens]

RECURSIVE SeqsUpTo(_, _)
SeqsUpTo(S, n) ==
    IF n = 0 THEN {<<>>}
    ELSE LET shorter == SeqsUpTo(S, n - 1)
         IN  shorter \cup {Append(s, x) : s \in {t \in shorter : Len(t) = n - 1}, x \in S}

DecimalDigits(i) == IF i < 10 THEN 1 ELSE 2

HeaderLen(qlen) == HeaderFixedLen + qlen
NoContextLen(qlen) == NoContextFixedLen + qlen

\* len(context_part) for the result of rank i
BlockLen(i, r) ==
    BlockFixedLen + DecimalDigits(i) + r.title_len + r.url_len + SimilarityDigits
    + r.chunk_len

\* len(context_part[:remaining_chars-50] + "\n[Content truncated...]\n---\n")
TruncatedLen(part_len, remaining_chars) ==
    PyIndex(remaining_chars - TruncReserve, part_len) + MarkerLen

\* Mutant: a single result taken for none.
NoResultsOffByOne(res) == Len(res) <= 1

\* `if not results`
NoResults(res) == res = <<>>

\* Mutant: the characters already emitted left out of the test.
FitsAlone(total, part_len, budget) == part_len <= budget

\* `if total_chars + len(context_part) <= max_chars`
Fits(total, part_len, budget) == total + part_len <= budget

RECURSIVE SumLens(_)
SumLens(parts) == IF parts = <<>> THEN 0 ELSE Head(parts).len + SumLens(Tail(parts))

\* len("".join(context_parts))
OutputLen == SumLens(context_parts)

InitCtx ==
    /\ query_len \in QueryLens
    /\ max_chars \in MaxCharsChoices
    /\ results \in SeqsUpTo(ResultShapes, Min(MaxResults, ContextTopK))
    /\ context_parts = <<>>
    /\ total_chars = 0
    /\ rank = 0
    /\ xpc = "entry"

\* results = self.search(query, top_k=10); the early return, or the header.
CtxEntry ==
    /\ xpc = "entry"
    /\ IF NoResults(results)
       THEN /\ context_parts' = <<[kind |-> "none", rank |-> 0,
                                   len |-> NoContextLen(query_len)]>>
            /\ total_chars' = 0
            /\ rank' = 0
            /\ xpc' = "done"
       ELSE /\ context_parts' = <<[kind |-> "header", rank |-> 0,
                                   len |-> HeaderLen(query_len)]>>
            /\ total_chars' = HeaderLen(query_len)
            /\ rank' = 1
            /\ xpc' = "loop"
    /\ UNCHANGED <<query_len, max_chars, results>>
    /\ UNCHANGED <<chunkVars, storeVars, procVars, obsVars, engineVars, scrapeVars>>

\* One pass of `for i, result in enumerate(results, 1)`; the join and the
\* return follow the last pass or the break.
CtxLoop ==
    /\ xpc = "loop"
    /\ rank <= Len(results)
    /\ LET part_len == BlockLen(rank, results[rank])
           remaining_chars == max_chars - total_chars
       IN  IF Fits(total_chars, part_len, max_chars)
           THEN /\ context_parts' = Append(context_parts,
                                           [kind |-> "block", rank |-> rank, len |-> part_len])
                /\ total_chars' = total_chars + part_len
                /\ rank' = rank + 1
                /\ xpc' = IF rank = Len(results) THEN "done" ELSE "loop"
           ELSE /\ context_parts' =
                      IF remaining_chars > MinRemaining
                      THEN Append(context_parts,
                                  [kind |-> "truncated", rank |-> rank,
                                   len |-> TruncatedLen(part_len, remaining_chars)])
                      ELSE context_parts
                /\ UNCHANGED <<total_chars, rank>>
                /\ xpc' = "done"
    /\ UNCHANGED <<query_len, max_chars, results>>
    /\ UNCHANGED <<chunkVars, storeVars, procVars, obsVars, engineVars, scrapeVars>>

NextCtx == CtxEntry \/ CtxLoop

(***************************************************************************)
(* EmbeddingProvider: the provider chosen at construction, its declared    *)
(* embedding_dim, and the length of the vectors encode returns.            *)
(***************************************************************************)
\* SentenceTransformer('all-MiniLM-L6-v2'): self.embedding_dim = 384
MiniLMDim == 384
\* text-embedding-3-small: self.embedding_dim = 1536
OpenAIDim == 1536
\* the hash fallback: self.embedding_dim = 128
SimpleDim == 128
\* len(hashlib.sha256(...).digest())
Sha256Len == 32

\* `stored_dim = int(result['value']) if result else 1536`
DefaultStoredDim == 1536
\* system_config has no embedding_dimension row
NoConfig == 0

MaxEncodes == 3
MaxInstances == 2
\* The provider argument; "other" is any string that names no provider.
ProviderArgs == {"auto", "sentence-transformers", "openai", "simple", "other"}

\* _init_provider: the provider and the dimension it declares.
init_provider(req, st, oa) ==
    LET chosen == IF req = "auto"
                  THEN (IF st THEN "sentence-transformers"
                        ELSE IF oa THEN "openai" ELSE "simple")
                  ELSE req
    IN  IF chosen = "sentence-transformers" /\ st
        THEN [provider |-> "sentence-transformers", embedding_dim |-> MiniLMDim]
        ELSE IF chosen = "openai" /\ oa
        THEN [provider |-> "openai", embedding_dim |-> OpenAIDim]
        ELSE [provider |-> "simple", embedding_dim |-> SimpleDim]

\* _simple_embedding: one float per byte of hash_bytes[:self.embedding_dim]
SimpleEmbeddingLen(dim) == PyIndex(dim, Sha256Len)

\* encode: what the call does when the model or the API answers (ok) and
\* when it raises.  The local model's exception leaves encode; the API's is
\* caught and the hash embedding returned.
encode(prov, dim, ok) ==
    IF prov = "sentence-transformers"
    THEN (IF ok THEN [raised |-> FALSE, len |-> MiniLMDim] ELSE [raised |-> TRUE, len |-> 0])
    ELSE IF prov = "openai"
    THEN (IF ok THEN [raised |-> FALSE, len |-> OpenAIDim]
          ELSE [raised |-> FALSE, len |-> SimpleEmbeddingLen(dim)])
    ELSE [raised |-> FALSE, len |-> SimpleEmbeddingLen(dim)]

InitEngine ==
    /\ requested \in ProviderArgs
    /\ st_available \in BOOLEAN
    /\ openai_available \in BOOLEAN
    /\ provider = ""
    /\ embedding_dim = 0
    /\ encoded = <<>>
    /\ epc = "new"
    /\ stored_dim = NoConfig
    /\ instances = 0

\* SentenceTransformer('all-MiniLM-L6-v2') reads the model from the local
\* cache or fetches it: it returns, or raises when the model cannot be had.
\* The other two branches call nothing that can fail.
LoadOutcomes(prov) == IF prov = "sentence-transformers" THEN BOOLEAN ELSE {TRUE}

\* EmbeddingProvider.__init__.  An exception of the model load leaves the
\* constructor: self.provider is set by then, self.embedding_dim is not.
InitProvider ==
    /\ epc = "new"
    /\ LET r == init_provider(requested, st_available, openai_available)
       IN  \E loaded \in LoadOutcomes(r.provider) :
              IF loaded
              THEN provider' = r.provider /\ embedding_dim' = r.embedding_dim
                   /\ epc' = "ready"
              ELSE provider' = r.provider /\ embedding_dim' = 0 /\ epc' = "failed"
    /\ UNCHANGED <<requested, st_available, openai_available, encoded, stored_dim, instances>>
    /\ UNCHANGED <<chunkVars, storeVars, procVars, obsVars, ctxVars, scrapeVars>>

\* One call of encode; the hash embedding never depends on an outside service.
Encode ==
    /\ epc = "ready"
    /\ Len(encoded) < MaxEncodes
    /\ \E ok \in (IF provider = "simple" THEN {TRUE} ELSE BOOLEAN) :
          encoded' = Append(encoded, encode(provider, embedding_dim, ok))
    /\ UNCHANGED <<requested, st_available, openai_available, provider, embedding_dim, epc,
                   stored_dim, instances>>
    /\ UNCHANGED <<chunkVars, storeVars, procVars, obsVars, ctxVars, scrapeVars>>

NextEngine == InitProvider \/ Encode

(***************************************************************************)
(* BerryRAGSystem.__init__ over an existing store.                         *)
(***************************************************************************)
\* The environments an engine is constructed in: (provider argument,
\* SENTENCE_TRANSFORMERS_AVAILABLE, OPENAI_AVAILABLE).
EngineArgs == {<<"auto", TRUE, FALSE>>, <<"openai", FALSE, TRUE>>, <<"auto", FALSE, FALSE>>}
EngineScope == [urls |-> {"u1"}, titles |-> {"t1"},
                contents |-> {<<"a", "b">>, <<"a", "b", "c", "d", "e", "f">>},
                vecs |-> {<<1, 0>>}]

StoredDim(sd) == IF sd = NoConfig THEN DefaultStoredDim ELSE sd

\* ALTER TABLE documents DROP COLUMN IF EXISTS embedding, then ADD COLUMN
\* embedding vector(dim): every row is left without an embedding.
DropEmbeddings(rows) == {[r EXCEPT !.embedding = NoEmbedding] : r \in rows}

\* _init_database.  SQLite: CREATE TABLE / INDEX IF NOT EXISTS change nothing
\* of an existing store.  PostgreSQL: the rows and the stored dimension after
\* the comparison with the provider's dimension.
init_database(rows, sd, dim) ==
    IF backend = "pg" /\ StoredDim(sd) # dim
    THEN [documents |-> DropEmbeddings(rows), stored_dim |-> dim]
    ELSE [documents |-> rows, stored_dim |-> sd]

\* An engine constructed on an empty store.
InitConstructed ==
    /\ \E a \in EngineArgs :
          /\ requested = a[1] /\ st_available = a[2] /\ openai_available = a[3]
          /\ provider = init_provider(a[1], a[2], a[3]).provider
          /\ embedding_dim = init_provider(a[1], a[2], a[3]).embedding_dim
    /\ stored_dim = init_database({}, NoConfig, embedding_dim).stored_dim
    /\ encoded = <<>>
    /\ epc = "ready"
    /\ instances = 1

\* BerryRAGSystem.__init__: a new engine, in an environment of its own, over
\* the store as it is.  (A construction whose provider raises ends before
\* _init_database and leaves the store as it was.)
Construct ==
    /\ \A p \in Procs : pc[p] = "idle"
    /\ instances < MaxInstances
    /\ instances' = instances + 1
    /\ \E a \in EngineArgs :
          LET e == init_provider(a[1], a[2], a[3])
              db == init_database(documents, stored_dim, e.embedding_dim)
          IN  /\ requested' = a[1] /\ st_available' = a[2] /\ openai_available' = a[3]
              /\ provider' = e.provider
              /\ embedding_dim' = e.embedding_dim
              /\ documents' = db.documents
              /\ stored_dim' = db.stored_dim
    /\ searchOut' = NoSearch
    /\ listOut' = NoList
    /\ UNCHANGED interface
    /\ UNCHANGED <<backend, vectors, clock, nextRowid, writer, calls>>
    /\ UNCHANGED <<procVars, hist, encoded, epc, chunkVars, ctxVars, scrapeVars>>

\* Engines constructed one after the other over a store one caller fills.
NextConstruct ==
    \/ AddCheck(1, EngineScope)
    \/ AddBegin(1)
    \/ AddChunkFile(1, EngineScope)
    \/ AddChunkPg(1, EngineScope)
    \/ AddCommit(1)
    \/ Construct

(***************************************************************************)
(* search, pgvector backend, and the calls a failing store does not answer.*)
(***************************************************************************)
IOScope == [urls |-> {"u1"}, titles |-> {"t1"},
            contents |-> {<<"a", "b">>, <<"a", "b", "c", "d", "e", "f">>},
            vecs |-> {<<1, 0>>}]

\* The rows search_similar_documents(query, threshold, k) keeps: those with
\* an embedding whose similarity reaches the threshold.
RECURSIVE CollectPg(_, _, _)
CollectPg(scan, q, th) ==
    IF scan = <<>> THEN <<>>
    ELSE LET row == Head(scan)
             rest == CollectPg(Tail(scan), q, th)
         IN  IF row.embedding = NoEmbedding \/ Len(row.embedding) # Len(q) THEN rest
             ELSE IF Qualifies(Similarity(q, row.embedding), th)
                  THEN <<[document |-> row,
                          similarity |-> Similarity(q, row.embedding)]>> \o rest
                  ELSE rest

\* SELECT * FROM search_similar_documents(%s, %s, %s)
search_similar_documents(q, th, k) ==
    TopK(SortBySimilarity(CollectPg(ScanSeq(documents), q, th)), k)

\* search of the pgvector backend, the store answering.
SearchPg ==
    /\ backend = "pg"
    /\ ~searchOut.called
    /\ \E q \in EncodeOutcomes(Queries), k \in 1..MaxTopK, th \in Thresholds :
          searchOut' = [called |-> TRUE, query |-> q, top_k |-> k, threshold |-> th,
                        results |-> IF q.raised THEN <<>>
                                    ELSE search_similar_documents(q.vec, th, k),
                        storage |-> "ok", raised |-> FALSE]
    /\ UNCHANGED <<storeVars, procVars, hist, listOut, interface, chunkVars, ctxVars, engineVars, scrapeVars>>

\* search when the connection or the statement fails.  File backend:
\* sqlite3.connect and conn.execute stand outside the try, the exception
\* leaves search.  pgvector backend: `except Exception: return []`.  A query
\* whose embedding failed has returned [] before the store is touched.
SearchFails ==
    /\ ~searchOut.called
    /\ \E q \in EncodeOutcomes(Queries), k \in 1..MaxTopK, th \in Thresholds :
          /\ ~q.raised
          /\ searchOut' = [called |-> TRUE, query |-> q, top_k |-> k, threshold |-> th,
                           results |-> <<>>, storage |-> "failed",
                           raised |-> (backend = "file")]
    /\ UNCHANGED <<storeVars, procVars, hist, listOut, interface, chunkVars, ctxVars, engineVars, scrapeVars>>

\* What get_context_for_query makes of its search: the exception passes
\* through, no result gives the 'No relevant context found' message,
\* anything else the header and the blocks.
ContextKind(so) ==
    IF so.raised THEN "raised"
    ELSE IF NoResults(so.results) THEN "none"
    ELSE "header"

\* add_document when a statement of the insert transaction or its commit
\* fails: the exception leaves the `with` block, the transaction is rolled
\* back and add_document raises.  Vector files already saved stay.
AddFails(p) ==
    /\ pc[p] = "loop"
    /\ pc' = [pc EXCEPT ![p] = "idle"]
    /\ ret' = [ret EXCEPT ![p] = Raised]
    /\ txn' = [txn EXCEPT ![p] = {}]
    /\ writer' = IF writer = p THEN 0 ELSE writer
    /\ Forget(p)
    /\ hist' = Track(NoHist)
    /\ searchOut' = NoSearch
    /\ listOut' = NoList
    /\ UNCHANGED interface
    /\ UNCHANGED <<backend, documents, vectors, clock, nextRowid, calls>>
    /\ UNCHANGED <<args, logged>>
    /\ UNCHANGED <<chunkVars, ctxVars, engineVars, scrapeVars>>

\* The metadata column is a text the store does not validate: a writer
\* outside the engine leaves one that is not JSON in a stored row.
Damage ==
    /\ \A p \in Procs : pc[p] = "idle"
    /\ \E r \in documents :
          /\ r.metadata_ok
          /\ documents' = (documents \ {r}) \cup {[r EXCEPT !.metadata_ok = FALSE]}
    /\ searchOut' = NoSearch
    /\ listOut' = NoList
    /\ UNCHANGED interface
    /\ UNCHANGED <<backend, vectors, clock, nextRowid, writer, calls>>
    /\ UNCHANGED <<procVars, hist, chunkVars, ctxVars, engineVars, scrapeVars>>

\* One caller, a writer that damages metadata, searches and listings.
NextDamaged ==
    \/ AddCheck(1, IOScope)
    \/ AddBegin(1)
    \/ AddChunkFile(1, IOScope)
    \/ AddChunkPg(1, IOScope)
    \/ AddCommit(1)
    \/ Damage
    \/ Search
    \/ SearchPg
    \/ ListDocuments

\* One caller and searches over a store that may fail, in either backend.
NextIO ==
    \/ AddCheck(1, IOScope)
    \/ AddBegin(1)
    \/ AddChunkFile(1, IOScope)
    \/ AddChunkPg(1, IOScope)
    \/ AddCommit(1)
    \/ AddFails(1)
    \/ Search
    \/ SearchPg
    \/ SearchFails

(***************************************************************************)
(* PlaywrightRAGIntegration.process_scraped_files.  A scraped file is its   *)
(* name; its content is the figures validate_content reads of the cleaned  *)
(* text.  add_document is followed by who it is called for.                *)
(***************************************************************************)
\* self.min_content_length, self.max_content_length
MinContentLength == 100
MaxContentLength == 500000
\* `if word_count < 20`, `if len(meaningful_sentences) < 3`
MinWords == 20
MinSentences == 3
\* `if len(lines) > 10 and len(unique_lines) / len(lines) < 0.5`
RepetitionLines == 10

MaxRuns == 3

Files == {"a.md", "b.md", "c.md"}

\* The cleaned content of each file: a page, a page, and a stub too short
\* to be kept.
Content(f) ==
    IF f = "c.md"
    THEN [len |-> 40, words |-> 8, sentences |-> 1, lines |-> 2, unique_lines |-> 2]
    ELSE [len |-> 400, words |-> 60, sentences |-> 5, lines |-> 12, unique_lines |-> 11]

\* validate_content(content, metadata)[0]
validate_content(c) ==
    /\ ~(c.len < MinContentLength)
    /\ ~(c.len > MaxContentLength)
    /\ ~(c.words < MinWords)
    /\ ~(c.sentences < MinSentences)
    /\ ~(c.lines > RepetitionLines /\ 2 * c.unique_lines < c.lines)

NoStats == [processed |-> 0, skipped |-> 0, errors |-> 0]

\* A scraped directory with some files, no .processed_files.json, and an
\* instance constructed over it.
InitScrapeDir ==
    /\ scraped_dir \in SUBSET Files
    /\ processed_files = {}
    /\ persisted = {}
    /\ new_files = {}
    /\ stats = NoStats
    /\ outcome = [f \in Files |-> "none"]
    /\ started = 0
    /\ counted = {}
    /\ repeated = {}
    /\ runs = 0
    /\ spc = "idle"

\* save_scraped_content: one more .md file in the directory.
SaveScraped ==
    /\ spc = "idle"
    /\ \E f \in Files \ scraped_dir : scraped_dir' = scraped_dir \cup {f}
    /\ UNCHANGED <<processed_files, persisted, new_files, stats, outcome, started,
                   counted, repeated, runs, spc>>
    /\ UNCHANGED <<chunkVars, storeVars, procVars, obsVars, ctxVars, engineVars>>

\* PlaywrightRAGIntegration.__init__ (each CLI command constructs one):
\* self.processed_files = self._load_processed_files()
NewInstance ==
    /\ spc = "idle"
    /\ processed_files' = persisted
    /\ UNCHANGED <<scraped_dir, persisted, new_files, stats, outcome, started,
                   counted, repeated, runs, spc>>
    /\ UNCHANGED <<chunkVars, storeVars, procVars, obsVars, ctxVars, engineVars>>

\* process_scraped_files up to the loop: the new files; the early return
\* when there is none.
ProcessBegin ==
    /\ spc = "idle"
    /\ runs < MaxRuns
    /\ runs' = runs + 1
    /\ LET new == {f \in scraped_dir : f \notin processed_files}
       IN  /\ new_files' = new
           /\ started' = Cardinality(new)
           /\ spc' = IF new = {} THEN "idle" ELSE "loop"
    /\ stats' = NoStats
    /\ outcome' = [f \in Files |-> "none"]
    /\ UNCHANGED <<scraped_dir, processed_files, persisted, counted, repeated>>
    /\ UNCHANGED <<chunkVars, storeVars, procVars, obsVars, ctxVars, engineVars>>

\* One pass of `for file_path in new_files` (glob yields the files in any
\* order): reading the file or add_document raises, or the content is
\* skipped, or add_document returns.
ProcessFile ==
    /\ spc = "loop"
    /\ \E f \in new_files : \E raises \in BOOLEAN :
          /\ new_files' = new_files \ {f}
          /\ IF raises
             THEN /\ stats' = [stats EXCEPT !.errors = @ + 1]
                  /\ outcome' = [outcome EXCEPT ![f] = "error"]
                  /\ UNCHANGED <<processed_files, counted, repeated>>
             ELSE IF ~validate_content(Content(f))
             THEN /\ stats' = [stats EXCEPT !.skipped = @ + 1]
                  /\ outcome' = [outcome EXCEPT ![f] = "skipped"]
                  /\ processed_files' = processed_files \cup {f}
                  /\ counted' = counted \cup {f}
                  /\ UNCHANGED repeated
             ELSE /\ stats' = [stats EXCEPT !.processed = @ + 1]
                  /\ outcome' = [outcome EXCEPT ![f] = "processed"]
                  /\ processed_files' = processed_files \cup {f}
                  /\ repeated' = IF f \in counted THEN repeated \cup {f} ELSE repeated
                  /\ counted' = counted \cup {f}
    /\ UNCHANGED <<scraped_dir, persisted, started, runs, spc>>
    /\ UNCHANGED <<chunkVars, storeVars, procVars, obsVars, ctxVars, engineVars>>

\* _save_processed_files, then `return stats`: the list is written, or the
\* write raises and the exception is logged and dropped.
ProcessSave ==
    /\ spc = "loop"
    /\ new_files = {}
    /\ \E written \in BOOLEAN :
          persisted' = IF written THEN processed_files ELSE persisted
    /\ spc' = "idle"
    /\ UNCHANGED <<scraped_dir, processed_files, new_files, stats, outcome, started,
                   counted, repeated, runs>>
    /\ UNCHANGED <<chunkVars, storeVars, procVars, obsVars, ctxVars, engineVars>>

NextScrape ==
    \/ SaveScraped
    \/ NewInstance
    \/ ProcessBegin
    \/ ProcessFile
    \/ ProcessSave

vars == <<chunkVars, storeVars, procVars, obsVars, ctxVars, engineVars, scrapeVars>>

ChunkIdle ==
    /\ text = <<>> /\ chunk_size = 0 /\ overlap = 0
    /\ start = 0 /\ chunks = <<>> /\ iters = 0 /\ cpc = "off"

StoreIdle ==
    /\ backend = "file" /\ documents = {} /\ vectors = <<>> /\ clock = 0
    /\ nextRowid = 1 /\ writer = 0 /\ calls = 0
    /\ pc = [p \in Procs |-> "off"]
    /\ args = [p \in Procs |-> [url |-> "", title |-> "", content |-> <<>>]]
    /\ doc_id = [p \in Procs |-> <<>>]
    /\ timestamp = [p \in Procs |-> 0]
    /\ todo = [p \in Procs |-> <<>>]
    /\ idx = [p \in Procs |-> 0]
    /\ txn = [p \in Procs |-> {}]
    /\ ret = [p \in Procs |-> <<>>]
    /\ logged = [p \in Procs |-> {}]
    /\ searchOut = NoSearch
    /\ listOut = NoList
    /\ interface = NoInterface
    /\ hist = HistOff

CtxIdle ==
    /\ query_len = 0 /\ max_chars = 0 /\ results = <<>> /\ context_parts = <<>>
    /\ total_chars = 0 /\ rank = 0 /\ xpc = "off"

EngineIdle ==
    /\ requested = "auto" /\ st_available = TRUE /\ openai_available = FALSE
    /\ provider = "" /\ embedding_dim = 0 /\ encoded = <<>> /\ epc = "off"
    /\ stored_dim = NoConfig /\ instances = 0

ScrapeIdle ==
    /\ scraped_dir = {} /\ processed_files = {} /\ persisted = {} /\ new_files = {}
    /\ stats = NoStats /\ outcome = [f \in Files |-> "none"] /\ started = 0
    /\ counted = {} /\ repeated = {} /\ runs = 0 /\ spc = "off"

\* Concurrent add_document callers, both backends.
InitStore == Init /\ hist = HistOff /\ ChunkIdle /\ CtxIdle /\ EngineIdle /\ ScrapeIdle
Spec == InitStore /\ [][Next]_vars

\* Back-to-back calls of one caller, followed by hist.
InitSeq == Init /\ hist = NoHist /\ ChunkIdle /\ CtxIdle /\ EngineIdle /\ ScrapeIdle
SpecSeq == InitSeq /\ [][NextSeq]_vars

\* The file-backed store filled by one caller, and searched.
InitSearch == Init /\ backend = "file" /\ hist = HistOff /\ ChunkIdle /\ CtxIdle /\ EngineIdle /\ ScrapeIdle
SpecSearch == InitSearch /\ [][NextSearch]_vars

\* Documents of several chunks ingested by one caller, embeddings failing.
InitIngest == Init /\ hist = HistOff /\ ChunkIdle /\ CtxIdle /\ EngineIdle /\ ScrapeIdle
SpecIngest == InitIngest /\ [][NextIngest]_vars

\* Versions of documents ingested by one caller, and listed.
InitList == Init /\ hist = HistOff /\ ChunkIdle /\ CtxIdle /\ EngineIdle /\ ScrapeIdle
SpecList == InitList /\ [][NextList]_vars

\* A store filled through one engine and opened by the next.
InitEngineStore == Init /\ hist = HistOff /\ ChunkIdle /\ CtxIdle /\ InitConstructed /\ ScrapeIdle
SpecEngine == InitEngineStore /\ [][NextConstruct]_vars

\* A store that may fail, filled by one caller and searched.
InitIO == Init /\ hist = HistOff /\ ChunkIdle /\ CtxIdle /\ EngineIdle /\ ScrapeIdle
SpecIO == InitIO /\ [][NextIO]_vars

\* A store with damaged metadata texts, searched and listed.
InitDamaged == Init /\ hist = HistOff /\ ChunkIdle /\ CtxIdle /\ EngineIdle /\ ScrapeIdle
SpecDamaged == InitDamaged /\ [][NextDamaged]_vars

\* chunk_text on every text and parameter pair of the bounds.
InitChunkText == InitChunk /\ StoreIdle /\ CtxIdle /\ EngineIdle /\ ScrapeIdle
SpecChunk == InitChunkText /\ [][NextChunk]_vars

\* chunk_text on longer texts, windows that start past 0.
InitCut == InitCutText /\ StoreIdle /\ CtxIdle /\ EngineIdle /\ ScrapeIdle
SpecCut == InitCut /\ [][NextChunk]_vars

\* get_context_for_query on every ranked result list of the bounds.
InitContext == InitCtx /\ StoreIdle /\ ChunkIdle /\ EngineIdle /\ ScrapeIdle
SpecContext == InitContext /\ [][NextCtx]_vars

\* An EmbeddingProvider of every provider argument and availability, encoding.
InitEmbed == InitEngine /\ StoreIdle /\ ChunkIdle /\ CtxIdle /\ ScrapeIdle
SpecEmbed == InitEmbed /\ [][NextEngine]_vars

\* Runs of process_scraped_files over a directory that fills, by instances
\* constructed one after the other.
InitScrape == InitScrapeDir /\ StoreIdle /\ ChunkIdle /\ CtxIdle /\ EngineIdle
SpecScrape == InitScrape /\ [][NextScrape]_vars

(***************************************************************************)
(* The claims.                                                             *)
(***************************************************************************)
\* C1 (SpecSeq): when add_document(url, content) has returned doc id d and
\* the next call, with the same url and content, follows right after it,
\* that call returns d too and get_stats' chunk_count is the same after
\* both.  Stated as the claim makes it, for every content.
C1_SequentialDedup ==
    hist.stage = "second" => hist.ret2 = hist.ret1 /\ hist.count2 = hist.count1

\* C2 (Spec): in every reachable state the stored chunks of one
\* (url, content_hash) belong to one doc id, and every add_document call
\* that has returned for that url and content returned that doc id.
C2_DedupUnique ==
    /\ \A r1 \in documents : \A r2 \in documents :
          (r1.url = r2.url /\ r1.content_hash = r2.content_hash)
             => BaseDocId(r1.id) = BaseDocId(r2.id)
    /\ \A p \in Procs :
          (pc[p] = "idle" /\ ret[p] # <<>> /\ ret[p] # Raised)
             => \A r \in Matching(args[p].url, content_hash(args[p].content)) :
                   BaseDocId(r.id) = ret[p]

\* C3 (SpecSearch): every result search returns has similarity >= the
\* threshold, its similarity being dot/(norm*norm) of the query and the
\* chunk's vector (in hundredths), and exactly 0 when that denominator is 0.
C3_ThresholdSafety ==
    searchOut.called =>
       \A i \in 1..Len(searchOut.results) :
          LET r == searchOut.results[i]
              q == searchOut.query.vec
              v == vectors[r.document.id]
              norms == Norm(q) * Norm(v)
          IN  /\ r.similarity >= searchOut.threshold
              /\ norms = 0 => r.similarity = 0
              /\ norms # 0 => r.similarity * norms = 100 * Dot(q, v)

\* A zero-norm query at threshold 0: search returns the stored chunks, each
\* with similarity 0.
C3_Witness ==
    /\ searchOut.called
    /\ ~searchOut.query.raised
    /\ Norm(searchOut.query.vec) = 0
    /\ searchOut.threshold = 0
    /\ Len(searchOut.results) >= 2

\* C4 (SpecSearch): the results are in non-increasing order of similarity,
\* and of two results with the same similarity the one with the more recent
\* timestamp comes first.
C4_ResultOrdering ==
    searchOut.called =>
       \A i \in 1..Len(searchOut.results) : \A j \in 1..Len(searchOut.results) :
          i < j =>
             LET a == searchOut.results[i]
                 b == searchOut.results[j]
             IN  /\ a.similarity >= b.similarity
                 /\ a.similarity = b.similarity
                       => a.document.timestamp >= b.document.timestamp

\* Two results tie on similarity and differ in timestamp.
C4_Witness ==
    /\ searchOut.called
    /\ Len(searchOut.results) = 2
    /\ searchOut.results[1].similarity = searchOut.results[2].similarity
    /\ searchOut.results[1].similarity > 0
    /\ searchOut.results[1].document.timestamp > searchOut.results[2].document.timestamp

\* The stored chunks that have a vector the query can be compared with and
\* whose similarity reaches the threshold.
QualifyingRows ==
    IF searchOut.query.raised THEN {}
    ELSE {r \in documents :
            /\ r.id \in DOMAIN vectors
            /\ Len(vectors[r.id]) = Len(searchOut.query.vec)
            /\ Similarity(searchOut.query.vec, vectors[r.id]) >= searchOut.threshold}

ReturnedIds == {searchOut.results[i].document.id : i \in 1..Len(searchOut.results)}

\* C5 (SpecSearch): for top_k >= 1 search returns exactly min(top_k, n)
\* results, n the number of qualifying stored chunks, the results are
\* qualifying chunks, and no qualifying chunk left out has a strictly
\* higher similarity than a returned one.
C5_TopKSelection ==
    (searchOut.called /\ searchOut.top_k >= 1) =>
       /\ Len(searchOut.results) = Min(searchOut.top_k, Cardinality(QualifyingRows))
       /\ Cardinality(ReturnedIds) = Len(searchOut.results)
       /\ ReturnedIds \subseteq Ids(QualifyingRows)
       /\ \A r \in QualifyingRows :
             r.id \notin ReturnedIds =>
                \A i \in 1..Len(searchOut.results) :
                   Similarity(searchOut.query.vec, vectors[r.id])
                      <= searchOut.results[i].similarity

\* More chunks qualify than top_k, and one of lower similarity is left out.
C5_Witness ==
    /\ searchOut.called
    /\ Cardinality(QualifyingRows) > searchOut.top_k
    /\ Len(searchOut.results) = searchOut.top_k
    /\ \E r \in QualifyingRows :
          /\ r.id \notin ReturnedIds
          /\ Similarity(searchOut.query.vec, vectors[r.id])
                < searchOut.results[Len(searchOut.results)].similarity

\* C6 (SpecChunk): a text of at most chunk_size characters, with any
\* overlap, comes back as the one-element list [text], unchanged.
C6_ShortText ==
    (cpc = "done" /\ Len(text) <= chunk_size) => chunks = <<text>>

\* A text of exactly chunk_size characters with whitespace at both ends,
\* overlap not below chunk_size.
C6_Witness ==
    /\ cpc = "done"
    /\ Len(text) = chunk_size
    /\ overlap >= chunk_size
    /\ IsSpace(text[1]) /\ IsSpace(text[Len(text)])
    /\ chunks = <<text>>

Trimmed(c) == c # <<>> /\ ~IsSpace(c[1]) /\ ~IsSpace(c[Len(c)])

\* C7 as claimed (SpecChunk): for every text, every chunk returned is
\* non-empty and has no whitespace at either end.
C7_AllChunksTrimmed ==
    cpc = "done" => \A i \in 1..Len(chunks) : Trimmed(chunks[i])

\* C7 as amended (SpecChunk): for every text longer than chunk_size, every
\* chunk collected is non-empty and has no whitespace at either end.
C7_LongTextChunksTrimmed ==
    Len(text) > chunk_size => \A i \in 1..Len(chunks) : Trimmed(chunks[i])

\* A long text with whitespace at both ends, cut into several chunks.
C7_Witness ==
    /\ cpc = "done"
    /\ Len(text) > chunk_size
    /\ IsSpace(text[1]) /\ IsSpace(text[Len(text)])
    /\ Len(chunks) >= 2

\* The first chunk, then each later chunk without its first `ov` characters.
RECURSIVE Rebuild(_, _)
Rebuild(cks, ov) ==
    IF cks = <<>> THEN <<>>
    ELSE IF Len(cks) = 1 THEN cks[1]
    ELSE Rebuild(SubSeq(cks, 1, Len(cks) - 1), ov) \o PySliceFrom(cks[Len(cks)], ov)

NoWhitespace(t) == \A i \in 1..Len(t) : ~IsSpace(t[i])

\* C8 as claimed (SpecChunk): for every text longer than chunk_size, with
\* 0 <= overlap < chunk_size, the chunks rebuild the text exactly.
C8_RoundTrip ==
    (cpc = "done" /\ Len(text) > chunk_size /\ 0 <= overlap /\ overlap < chunk_size)
       => Rebuild(chunks, overlap) = text

\* C8 as amended (SpecChunk): the same for every such text that holds no
\* whitespace character.
C8_RoundTripNoWhitespace ==
    (cpc = "done" /\ Len(text) > chunk_size /\ 0 <= overlap /\ overlap < chunk_size
       /\ NoWhitespace(text))
       => Rebuild(chunks, overlap) = text

\* A whitespace-free text cut into three or more overlapping chunks.
C8_Witness ==
    /\ cpc = "done"
    /\ NoWhitespace(text)
    /\ overlap >= 1 /\ overlap < chunk_size
    /\ Len(chunks) >= 3
    /\ Rebuild(chunks, overlap) = text

\* C9 (SpecContext): when the search has a result, the returned string,
\* header included, is at most max_chars plus the truncation marker long.
C9_ContextBudget ==
    (xpc = "done" /\ results # <<>>) => OutputLen <= max_chars + MarkerLen

\* C10 (SpecContext): the 'No relevant context found' message is returned
\* exactly when the search returns no result; otherwise the output starts
\* with the header and is at least the header.
C10_EmptyContextMessage ==
    xpc = "done" =>
       /\ (context_parts[1].kind = "none") <=> (results = <<>>)
       /\ context_parts[1].kind = "none" => Len(context_parts) = 1
       /\ results # <<>> =>
             /\ context_parts[1].kind = "header"
             /\ context_parts[1].len = HeaderLen(query_len)
             /\ OutputLen >= HeaderLen(query_len)

\* A result exists but nothing besides the header fits.
C10_Witness ==
    /\ xpc = "done"
    /\ results # <<>>
    /\ Len(context_parts) = 1
    /\ context_parts[1].kind = "header"

\* C11 (SpecEmbed): every vector encode returns has the length the provider
\* instance declares as embedding_dim, the hash fallback included.
C11_EmbeddingDim ==
    \A i \in 1..Len(encoded) : ~encoded[i].raised => encoded[i].len = embedding_dim

\* The stored row of chunk i of document d has its vector: a vector file in
\* the file backend, the embedding column in the pgvector backend.
StoredWithVector(rows, vecs, d, i, c) ==
    \E r \in rows :
       /\ r.id = ChunkId(d, i)
       /\ r.content = c
       /\ IF backend = "file" THEN r.id \in DOMAIN vecs ELSE r.embedding # NoEmbedding

C13_FailedChunkRecorded ==
    \A p \in Procs :
       (pc[p] = "idle" /\ ret[p] # <<>> /\ ret[p] # Raised) =>
          \A i \in logged[p] :
             /\ ChunkId(ret[p], i) \in Ids(documents)
             /\ ChunkId(ret[p], i) \notin DOMAIN vectors
             /\ \A r \in documents : r.id = ChunkId(ret[p], i) => r.embedding = NoEmbedding
             /\ searchOut.called => ChunkId(ret[p], i) \notin ReturnedIds

\* C14 (SpecIngest): in every reachable state the stored chunk indexes of
\* each doc id are exactly 0..total_chunks-1, total_chunks as recorded in
\* the metadata of those chunks.
C14_GapFree ==
    \A r \in documents :
       {x.chunk_id : x \in {y \in documents : BaseDocId(y.id) = BaseDocId(r.id)}}
          = 0..(r.total_chunks - 1)

\* C15 (SpecList): list_documents returns one entry per (url, title) pair of
\* the store; its chunk_count is the number of stored chunks of the pair, of
\* every version, its timestamp their latest timestamp, and the entries come
\* most recent first.
C15_ListGrouping ==
    listOut.called =>
       LET es == listOut.entries
       IN  /\ Len(es) = Cardinality(Groups(documents))
           /\ \A g \in Groups(documents) :
                 \E i \in 1..Len(es) :
                    /\ es[i].url = g[1] /\ es[i].title = g[2]
                    /\ es[i].chunk_count =
                          Cardinality({r \in documents : r.url = g[1] /\ r.title = g[2]})
                    /\ \A r \in documents :
                          (r.url = g[1] /\ r.title = g[2]) => r.timestamp <= es[i].timestamp
                    /\ \E r \in documents :
                          r.url = g[1] /\ r.title = g[2] /\ r.timestamp = es[i].timestamp
           /\ \A i \in 1..Len(es) : \A j \in 1..Len(es) :
                 i < j => es[i].timestamp >= es[j].timestamp

\* Two documents of different timestamps are listed.
C15_Witness ==
    /\ listOut.called
    /\ Len(listOut.entries) = 2
    /\ listOut.entries[1].timestamp > listOut.entries[2].timestamp

\* The chunks of the earliest ingestion of a (url, title) pair.
FirstSeen(g) ==
    {r \in documents :
        /\ r.url = g[1] /\ r.title = g[2]
        /\ \A x \in documents : (x.url = g[1] /\ x.title = g[2]) => r.rowid <= x.rowid}

\* C19 (SpecList): for a (url, title) pair that holds chunks of more than one
\* version, list_documents reports the content_length of the first-seen
\* chunk metadata of the pair, in both backends.
C19_FirstSeenMetadata ==
    listOut.called =>
       \A i \in 1..Len(listOut.entries) :
          LET e == listOut.entries[i]
          IN  \A r \in FirstSeen(<<e.url, e.title>>) : e.content_length = r.original_length

\* C16 (SpecEngine): constructing an engine over a store never deletes or
\* overwrites a persisted vector, whatever dimension the new provider
\* declares: every vector file and every embedding of a row is still there
\* after the construction.
C16_NoImplicitOverwrite ==
    [][instances' # instances =>
          /\ vectors' = vectors
          /\ \A r \in documents :
                \E x \in documents' : x.id = r.id /\ x.embedding = r.embedding]_vars

\* C17 (SpecIO): a search the store does not answer ends in an exception
\* and returns no list, and get_context_for_query does not answer it with
\* the 'No relevant context found' message; in both backends.
C17_StorageFailureReported ==
    (searchOut.called /\ searchOut.storage = "failed") =>
       /\ searchOut.raised
       /\ ContextKind(searchOut) # "none"

\* The vector search compares with row r: its vector file, or its embedding.
VectorOf(r) ==
    IF backend = "file"
    THEN (IF r.id \in DOMAIN vectors THEN vectors[r.id] ELSE NoEmbedding)
    ELSE r.embedding

\* The stored chunks whose similarity to the query of the last search
\* reaches its threshold, whatever their metadata text.
Candidates ==
    IF searchOut.query.raised THEN {}
    ELSE {r \in documents :
            /\ Len(VectorOf(r)) = Len(searchOut.query.vec)
            /\ Similarity(searchOut.query.vec, VectorOf(r)) >= searchOut.threshold}

\* C18 (SpecDamaged): a stored chunk whose metadata text does not parse is
\* still returned by search when its similarity qualifies and top_k leaves
\* room for every qualifying chunk, and list_documents still lists its
\* document; in both backends.
C18_MalformedMetadataTolerated ==
    /\ (searchOut.called /\ Cardinality(Candidates) <= searchOut.top_k) =>
          \A r \in Candidates : ~r.metadata_ok => r.id \in ReturnedIds
    /\ listOut.called =>
          \A r \in documents :
             ~r.metadata_ok =>
                \E i \in 1..Len(listOut.entries) :
                   listOut.entries[i].url = r.url /\ listOut.entries[i].title = r.title

\* C20 (SpecChunk): with chunk_size >= 1 and 0 <= overlap < chunk_size every
\* iteration that stays in the loop moves the window start strictly forward
\* (so the loop ends after at most len(text) iterations).
C20_StartIncreases ==
    [][(cpc = "loop" /\ cpc' = "loop"
          /\ chunk_size >= 1 /\ 0 <= overlap /\ overlap < chunk_size)
       => start' > start]_vars

\* The 0-based positions p of the window [st, st + cs) of t at which sub
\* occurs, sub lying inside the window.
Occurrences(t, st, cs, sub) ==
    {q \in st..(st + cs - Len(sub)) : SubSeq(t, q + 1, q + Len(sub)) = sub}

\* The cuts C21 allows for the window [st, st + cs): right after a sentence
\* terminator at a position past st + cs/2; failing that, right after a
\* paragraph break past st + cs/3; failing that, right after a line break
\* past st + cs/2; failing that, st + cs.  (2q > 2st + cs is q > st + cs/2.)
CutsByPosition(t, st, cs) ==
    LET sentence == {q \in UNION {Occurrences(t, st, cs, sub) :
                                    sub \in {<<".", " ">>, <<".", "\n">>,
                                             <<"?", " ">>, <<"!", " ">>}} :
                        2 * q > 2 * st + cs}
        para == {q \in Occurrences(t, st, cs, <<"\n", "\n">>) : 3 * q > 3 * st + cs}
        line == {q \in Occurrences(t, st, cs, <<"\n">>) : 2 * q > 2 * st + cs}
    IN  IF sentence # {} THEN {q + 1 : q \in sentence}
        ELSE IF para # {} THEN {q + 2 : q \in para}
        ELSE IF line # {} THEN {q + 1 : q \in line}
        ELSE {st + cs}

\* C21 (SpecCut): in every loop iteration whose window does not reach the
\* end of the text, at start 0 and past it, the chunk is cut where the
\* positions of the boundaries in the window say (the cut is the next start
\* plus the overlap).
C21_BoundaryAwareCut ==
    [][cpc = "loop" /\ iters' # iters /\ start + chunk_size < Len(text)
       => (start' + overlap) \in CutsByPosition(text, start, chunk_size)]_vars

\* C22 (SpecChunk): with chunk_size >= 1 and 0 <= overlap < chunk_size, no
\* chunk collected so far, and so none returned, is longer than chunk_size.
C22_ChunkSizeBound ==
    (chunk_size >= 1 /\ 0 <= overlap /\ overlap < chunk_size)
        => \A i \in 1..Len(chunks) : Len(chunks[i]) <= chunk_size

\* A call that returned several chunks of a text longer than the window, one
\* of them as long as the window and one shorter.
C22_Witness ==
    /\ cpc = "done" /\ chunk_size >= 1 /\ 0 <= overlap /\ overlap < chunk_size
    /\ Len(text) > chunk_size /\ Len(chunks) >= 2
    /\ \E i \in 1..Len(chunks) : Len(chunks[i]) = chunk_size
    /\ \E i \in 1..Len(chunks) : Len(chunks[i]) < chunk_size

\* The header and the first k blocks, in characters.
RECURSIVE PrefixLen(_)
PrefixLen(k) ==
    IF k = 0 THEN HeaderLen(query_len)
    ELSE PrefixLen(k - 1) + BlockLen(k, results[k])

\* The number of full blocks in the output.
FullBlocks == Cardinality({i \in 1..Len(context_parts) : context_parts[i].kind = "block"})

\* C23 (SpecContext): the output is the header, then the blocks of ranks
\* 1..k in rank order, k the longest prefix of the results that fits in
\* max_chars; when a result k + 1 exists (the first that does not fit), one
\* truncated copy of it follows exactly when more than 200 characters of
\* budget remain, and nothing of a later rank follows in either case.
C23_GreedyContext ==
    (xpc = "done" /\ results # <<>>) =>
        LET k == FullBlocks
            n == Len(context_parts)
        IN  /\ context_parts[1].kind = "header"
            /\ \A i \in 2..(k + 1) :
                  /\ context_parts[i] = [kind |-> "block", rank |-> i - 1,
                                          len |-> BlockLen(i - 1, results[i - 1])]
                  /\ PrefixLen(i - 1) <= max_chars
            /\ k <= Len(results)
            /\ k = Len(results) => n = k + 1
            /\ k < Len(results) =>
                  /\ PrefixLen(k + 1) > max_chars
                  /\ IF max_chars - PrefixLen(k) > MinRemaining
                     THEN /\ n = k + 2
                          /\ context_parts[n].kind = "truncated"
                          /\ context_parts[n].rank = k + 1
                     ELSE n = k + 1

\* A full block, then a truncated copy of the second result, the third
\* result left out.
C23_Witness ==
    /\ xpc = "done"
    /\ Len(results) = 3
    /\ Len(context_parts) = 3
    /\ context_parts[2].kind = "block"
    /\ context_parts[3].kind = "truncated" /\ context_parts[3].rank = 2

\* A block that does not fit with 200 characters or fewer left: the output
\* ends with the last full block.
C23_WitnessDropped ==
    /\ xpc = "done"
    /\ Len(results) = 3
    /\ Len(context_parts) = 2
    /\ context_parts[2].kind = "block"
    /\ max_chars - total_chars > 0

\* The committed rows with the url and the content hash of the arguments a.
StoredCopies(a) ==
    {r \in documents : r.url = a.url /\ r.content_hash = content_hash(a.content)}

\* C24 (SpecSeq): a call of add_document whose url and content hash are
\* already stored returns at once with the base id of a stored copy: no row
\* is added, changed or replaced (whatever the title of the call), no vector
\* is written, nothing is chunked or embedded, no transaction is opened and
\* query_interface.json is not rewritten.
C24_DedupFrame ==
    [][(calls' # calls /\ StoredCopies(args'[1]) # {})
       => /\ documents' = documents
          /\ vectors' = vectors
          /\ interface' = interface
          /\ nextRowid' = nextRowid /\ txn' = txn /\ writer' = writer
          /\ pc'[1] = "idle" /\ todo' = todo /\ idx' = idx /\ doc_id' = doc_id
          /\ \E r \in StoredCopies(args'[1]) : ret'[1] = BaseDocId(r.id)]_vars

\* A repeat call under another title has just returned: the stored rows
\* keep the first title, and the interface file has been written once.
C24_Witness ==
    /\ calls = 2 /\ pc[1] = "idle"
    /\ StoredCopies(args[1]) # {}
    /\ \A r \in StoredCopies(args[1]) : r.title # args[1].title
    /\ ret[1] \in {BaseDocId(r.id) : r \in StoredCopies(args[1])}
    /\ interface.writes = 1
    /\ documents # {} /\ vectors # <<>>

\* C25 (SpecEmbed): whatever the provider argument and whichever of the
\* local model and the remote API are available, the construction of
\* EmbeddingProvider succeeds, with provider and embedding_dim one of
\* sentence-transformers/384, openai/1536, simple/128; in 'auto' mode the
\* local model is taken when available, else the remote API when available,
\* and the hash fallback only when neither is.
C25_ProviderSelection ==
    epc # "new" =>
       /\ epc = "ready"
       /\ <<provider, embedding_dim>> \in {<<"sentence-transformers", MiniLMDim>>,
                                          <<"openai", OpenAIDim>>,
                                          <<"simple", SimpleDim>>}
       /\ requested = "auto" =>
             provider = IF st_available THEN "sentence-transformers"
                        ELSE IF openai_available THEN "openai"
                        ELSE "simple"

\* The same, for the constructions that return.
C25_SelectionWhenLoaded ==
    epc = "ready" =>
       /\ <<provider, embedding_dim>> \in {<<"sentence-transformers", MiniLMDim>>,
                                          <<"openai", OpenAIDim>>,
                                          <<"simple", SimpleDim>>}
       /\ requested = "auto" =>
             provider = IF st_available THEN "sentence-transformers"
                        ELSE IF openai_available THEN "openai"
                        ELSE "simple"

\* C26 (SpecIngest): while add_document is between two chunks, every chunk
\* row it has written so far is committed (a search or get_stats of another
\* connection reads it) and the caller holds no write lock of the store.
C26_PerChunkCommit ==
    \A p \in Procs :
        (pc[p] = "loop" /\ idx[p] >= 1 /\ idx[p] < Len(todo[p])) =>
            /\ \A r \in txn[p] : r \in documents
            /\ get_stats(documents).chunk_count >= Cardinality(txn[p])
            /\ writer # p

\* What C27 says a stored row keeps: everything but SQLite's rowid and the
\* vector.
Stored(r) ==
    <<r.id, r.url, r.title, r.content, r.chunk_id, r.timestamp,
      r.content_hash, r.total_chunks, r.original_length, r.metadata_ok>>

\* C27 (SpecSeq): no step changes or replaces a stored row, and the set of
\* stored chunk ids only grows; so no two calls that both store rows write
\* under the same doc_id, whatever clock values they read.
C27_InsertOnly ==
    [][\A r \in documents : \E x \in documents' : Stored(x) = Stored(r)]_vars

\* C28 (SpecIO): in the file backend every vector file is named after the id
\* of a row of the store (committed, or written in a transaction still
\* open), also after an add_document that failed part-way; the file name
\* being the row id, a row has at most one vector.
C28_VectorsHaveRows ==
    backend = "file" =>
        \A id \in DOMAIN vectors :
            id \in Ids(documents) \cup UNION {Ids(txn[p]) : p \in Procs}

\* The doc ids of the stored rows.
StoredDocIds == {BaseDocId(r.id) : r \in documents}

\* C29 (SpecSeq): in the file backend get_stats counts the rows as
\* chunk_count and the distinct urls as document_count; document_count is at
\* most the number of entries of list_documents, which is at most the number
\* of distinct stored doc ids; and when the first add_document, of a
\* non-empty content on the empty store, has returned its doc id,
\* document_count is 1 and chunk_count at least 1.
C29_StatsConsistent ==
    backend = "file" =>
        LET counts == get_stats(documents)
        IN  /\ counts.chunk_count = Cardinality(documents)
            /\ counts.document_count = Cardinality({r.url : r \in documents})
            /\ counts.document_count <= Cardinality(Groups(documents))
            /\ Cardinality(Groups(documents)) <= Cardinality(StoredDocIds)
            /\ (calls = 1 /\ pc[1] = "idle" /\ ret[1] \notin {<<>>, Raised}
                /\ args[1].content # <<>>)
                  => counts.document_count = 1 /\ counts.chunk_count >= 1

\* The part of C29 that compares the entries of list_documents with the
\* stored doc ids.
C29_ListedAtMostDocIds ==
    backend = "file" => Cardinality(Groups(documents)) <= Cardinality(StoredDocIds)

\* C30 (SpecScrape): when a run of process_scraped_files has returned, its
\* three counters add up to the number of .md files that were not in the
\* processed set when it started; every file it counted processed or
\* skipped is in the persisted processed set; no file is passed to
\* add_document after a run has counted it processed or skipped; and a file
\* counted as an error is in neither set, so the next run takes it again.
C30_AtMostOnce ==
    (spc = "idle" /\ runs >= 1) =>
        /\ stats.processed + stats.skipped + stats.errors = started
        /\ \A f \in Files : outcome[f] \in {"processed", "skipped"} => f \in persisted
        /\ repeated = {}
        /\ \A f \in Files :
              outcome[f] = "error" => f \notin processed_files /\ f \notin persisted

\* The parts of C30 that do not depend on .processed_files.json being
\* written: the counters, and the errored files left out of the set.
C30_CountersAddUp ==
    (spc = "idle" /\ runs >= 1) =>
        /\ stats.processed + stats.skipped + stats.errors = started
        /\ \A f \in Files : outcome[f] = "error" => f \notin processed_files

\* A run that finds no new file returns three zeros and changes neither the
\* processed set nor the file.
C30_NoNewFiles ==
    [][(runs' # runs /\ \A f \in scraped_dir : f \in processed_files)
       => /\ stats' = NoStats /\ spc' = "idle"
          /\ processed_files' = processed_files /\ persisted' = persisted]_vars

====
